---- MODULE Spec2Model ----
(***************************************************************************)
(* pngme: the PNG chunk codec (ChunkType, Chunk) and the four commands     *)
(* that work on a PNG file (encode, decode, remove, print).                *)
(*                                                                         *)
(* ChunkType and Chunk are pure values; each specification below draws     *)
(* inputs from bounded sets and applies the operations to them, keeping    *)
(* the results in the state.                                               *)
(***************************************************************************)
EXTENDS Integers, Sequences, FiniteSets, TLC

(***************************************************************************)
(* Machine integers.  TLC's integers are 32-bit signed, so a u32 (and a    *)
(* usize of the 64-bit build) is kept as two limbs: value = hi*2^16 + lo   *)
(* with 0 <= lo < 2^16.  A u32 has hi < 2^16.                              *)
(*                                                                         *)
(* The arithmetic, the byte vectors and the checksum are functions: a      *)
(* function is applied to values, so an argument is evaluated once,        *)
(* before the application.                                                 *)
(***************************************************************************)
\* F applied to the value of e: e is evaluated once, however often F uses it
WithValue(e, F(_)) == CHOOSE y \in {F(x) : x \in {e}} : TRUE

Base == 2 ^ 16

Wide == [hi : Nat, lo : Nat]

W(n) == [hi |-> n \div Base, lo |-> n % Base]

WAdd[a \in Wide, b \in Wide] ==
    [hi |-> a.hi + b.hi + ((a.lo + b.lo) \div Base), lo |-> (a.lo + b.lo) % Base]

WLt[a \in Wide, b \in Wide] == a.hi < b.hi \/ (a.hi = b.hi /\ a.lo < b.lo)

WLe[a \in Wide, b \in Wide] == a = b \/ WLt[a, b]

\* a - b, for b <= a
WSub[a \in Wide, b \in Wide] ==
    IF a.lo >= b.lo
    THEN [hi |-> a.hi - b.hi, lo |-> a.lo - b.lo]
    ELSE [hi |-> a.hi - b.hi - 1, lo |-> a.lo + Base - b.lo]

WHalf(a) == [hi |-> a.hi \div 2, lo |-> (a.lo \div 2) + (a.hi % 2) * (Base \div 2)]

\* `x as u32` of a usize: the low 32 bits
as_u32(n) == [hi |-> n.hi % Base, lo |-> n.lo]

\* usize::try_from(u32) of the 64-bit build: always Ok, same value
usize_try_from(x) == x

\* the 16-bit number whose bit i is f(i)
Pack16(f(_)) ==
    LET t(i) == f(i) * 2 ^ i
    IN  (((t(0) + t(1)) + (t(2) + t(3))) + ((t(4) + t(5)) + (t(6) + t(7))))
        + (((t(8) + t(9)) + (t(10) + t(11))) + ((t(12) + t(13)) + (t(14) + t(15))))

\* bitwise xor of two 16-bit limbs
Xor[a \in Nat, b \in Nat] == Pack16(LAMBDA i : ((a \div 2 ^ i) + (b \div 2 ^ i)) % 2)

\* bitwise and of two 16-bit limbs
BitAnd[a \in Nat, b \in Nat] == Pack16(LAMBDA i : ((a \div 2 ^ i) % 2) * ((b \div 2 ^ i) % 2))

XorU32[a \in Wide, b \in Wide] == [hi |-> Xor[a.hi, b.hi], lo |-> Xor[a.lo, b.lo]]

to_be_bytes(x) == <<x.hi \div 256, x.hi % 256, x.lo \div 256, x.lo % 256>>

from_be_bytes(b) == [hi |-> b[1] * 256 + b[2], lo |-> b[3] * 256 + b[4]]

(***************************************************************************)
(* Byte vectors (Vec<u8>, &[u8]).  A vector is a sequence of runs          *)
(* [b |-> byte, n |-> count], count a non-zero limb pair, no two adjacent  *)
(* runs with the same byte: one value per byte string, and a vector of     *)
(* 2^31 or 2^32 bytes has a representation.  The recursions over a vector  *)
(* split it in halves, so that their depth is the logarithm of the number  *)
(* of runs.                                                                *)
(***************************************************************************)
ByteRun == [b : Nat, n : Wide]

Vector == Seq(ByteRun)

\* v followed by n bytes b
Push[v \in Vector, b \in Nat, n \in Wide] ==
    IF n = W(0) THEN v
    ELSE IF v # <<>> /\ v[Len(v)].b = b
         THEN [v EXCEPT ![Len(v)].n = WAdd[@, n]]
         ELSE Append(v, [b |-> b, n |-> n])

Concat[u \in Vector, v \in Vector] ==
    IF v = <<>> THEN u ELSE Push[u, v[1].b, v[1].n] \o Tail(v)

\* the halves of a sequence of two or more elements
Left(v) == SubSeq(v, 1, Len(v) \div 2)

Right(v) == SubSeq(v, (Len(v) \div 2) + 1, Len(v))

\* the vector holding the bytes of the sequence s
Vec[s \in Seq(Nat)] ==
    IF s = <<>> THEN <<>>
    ELSE IF Len(s) = 1 THEN <<[b |-> s[1], n |-> W(1)]>>
    ELSE Concat[Vec[Left(s)], Vec[Right(s)]]

\* vec![b; n]
Fill(b, n) == Push[<<>>, b, n]

VLen[v \in Vector] ==
    IF v = <<>> THEN W(0)
    ELSE IF Len(v) = 1 THEN v[1].n
    ELSE WAdd[VLen[Left(v)], VLen[Right(v)]]

\* the first k bytes of v (all of v when it has fewer)
Take[v \in Vector, k \in Wide] ==
    IF k = W(0) \/ v = <<>> THEN <<>>
    ELSE IF Len(v) = 1
         THEN <<[b |-> v[1].b, n |-> IF WLe[k, v[1].n] THEN k ELSE v[1].n]>>
    ELSE IF WLe[k, VLen[Left(v)]] THEN Take[Left(v), k]
    ELSE Left(v) \o Take[Right(v), WSub[k, VLen[Left(v)]]]

\* v without its first k bytes (empty when it has fewer)
Drop[v \in Vector, k \in Wide] ==
    IF k = W(0) \/ v = <<>> THEN v
    ELSE IF Len(v) = 1
         THEN IF WLt[k, v[1].n] THEN <<[b |-> v[1].b, n |-> WSub[v[1].n, k]]>> ELSE <<>>
    ELSE IF WLe[VLen[Left(v)], k] THEN Drop[Right(v), WSub[k, VLen[Left(v)]]]
    ELSE Drop[Left(v), k] \o Right(v)

\* the bytes of a short vector as a sequence
Bytes[v \in Vector] ==
    IF v = <<>> THEN <<>>
    ELSE <<v[1].b>> \o Bytes[Drop[v, W(1)]]

(***************************************************************************)
(* CRC-32/ISO-HDLC (crc crate, CRC_32_ISO_HDLC): reflected polynomial      *)
(* 0xEDB88320, register initialised to 0xFFFFFFFF, result xored with       *)
(* 0xFFFFFFFF.                                                             *)
(***************************************************************************)
CRC_POLY == [hi |-> 60856, lo |-> 33568]

CRC_ONES == [hi |-> Base - 1, lo |-> Base - 1]

\* one bit of the register shifted out
CrcShift[r \in Wide] == IF r.lo % 2 = 1 THEN XorU32[WHalf(r), CRC_POLY] ELSE WHalf(r)

CrcShifts[r \in Wide, k \in Nat] == IF k = 0 THEN r ELSE CrcShift[CrcShifts[r, k - 1]]

\* the tables of 0 .. 8 shifts: entry [k + 1][j + 1] is the register j after
\* k shifts; the table of 8 shifts is the crate's lookup table
ShiftTable == [k \in 1 .. 9 |-> [j \in 1 .. 2 ^ (k - 1) |-> CrcShifts[W(j - 1), k - 1]]]

\* the register after k <= 8 shifts: the bits shifted out select the table
\* entry that is added to what remains
ShiftBy[r \in Wide, k \in Nat] ==
    XorU32[ShiftTable[k + 1][(r.lo % (2 ^ k)) + 1],
           [hi |-> r.hi \div (2 ^ k),
            lo |-> (r.lo \div (2 ^ k)) + (r.hi % (2 ^ k)) * (Base \div (2 ^ k))]]

\* one byte fed to the register: table[(r ^ b) & 0xFF] ^ (r >> 8)
CrcByte[r \in Wide, b \in Nat] == ShiftBy[[hi |-> r.hi, lo |-> Xor[r.lo, b]], 8]

\* Feeding a zero byte is 8 shifts, and a shift multiplies the register, read
\* as a polynomial over GF(2) (bit 31 is x^0), by x modulo the polynomial: a
\* run of n zero bytes multiplies it by x^(8n).
BitOf(a, i) == IF i >= 16 THEN (a.hi \div (2 ^ (i - 16))) % 2 ELSE (a.lo \div (2 ^ i)) % 2

\* the register r after i shifts
XShift[r \in Wide, i \in Nat] == IF i > 8 THEN XShift[ShiftBy[r, 8], i - 8] ELSE ShiftBy[r, i]

\* the sum (xor) of the second components of the pairs: bit k of it is the
\* parity of the number of them with bit k
XorAll[terms \in SUBSET (Nat \X Wide)] ==
    [hi |-> Pack16(LAMBDA k : Cardinality({t \in terms : BitOf(t[2], 16 + k) = 1}) % 2),
     lo |-> Pack16(LAMBDA k : Cardinality({t \in terms : BitOf(t[2], k) = 1}) % 2)]

\* the polynomial 1 (x^0 is bit 31)
GfOne == [hi |-> 2 ^ 15, lo |-> 0]

\* the product of two polynomials modulo the CRC polynomial: b times x^i,
\* summed over the powers x^i of a
GfMul[a \in Wide, b \in Wide] ==
    IF a = GfOne THEN b
    ELSE IF b = GfOne THEN a
    ELSE XorAll[{<<i, XShift[b, i]>> : i \in {j \in 0 .. 31 : BitOf(a, 31 - j) = 1}}]

\* x^(2^0), x^(2^1), .. x^(2^k), each the square of the one before
GfSquares[k \in Nat] ==
    IF k = 0 THEN <<[hi |-> 2 ^ 14, lo |-> 0]>>
    ELSE WithValue(GfSquares[k - 1], LAMBDA sq : Append(sq, GfMul[sq[k], sq[k]]))

\* X2N[k + 1] = x^(2^k) modulo the CRC polynomial, k in 0 .. 31; the squares
\* repeat from there on (x^(2^32) = x)
X2N == GfSquares[31]

\* x^(8 * m), m the number made of the bits lo .. hi of n: the product of the
\* x^(2^(i+3)) over the bits i that are set, by halves
GfPowBits[n \in Wide, lo \in Nat, hi \in Nat] ==
    IF lo = hi
    THEN IF BitOf(n, lo) = 1 THEN X2N[((lo + 3) % 32) + 1] ELSE GfOne
    ELSE GfMul[GfPowBits[n, lo, (lo + hi) \div 2], GfPowBits[n, ((lo + hi) \div 2) + 1, hi]]

\* x^(8n) modulo the CRC polynomial, n below 2^40
GfPowX8(n) == GfPowBits[n, 0, 39]

\* n zero bytes fed to the register
CrcZeros(r, n) == GfMul[r, GfPowX8(n)]

\* a run of n bytes b fed to the register
CrcRun[r \in Wide, b \in Nat, n \in Wide] ==
    IF n = W(0) THEN r
    ELSE IF b = 0 /\ WLt[W(4), n] THEN CrcZeros(r, n)
    ELSE CrcRun[CrcByte[r, b], b, WSub[n, W(1)]]

\* the bytes of v fed to the register r: the left half, then (on the register
\* that gave) the right half
CrcVec[r \in Wide, v \in Vector] ==
    IF v = <<>> THEN r
    ELSE IF Len(v) = 1 THEN CrcRun[r, v[1].b, v[1].n]
    ELSE CrcVec[CrcVec[r, Left(v)], Right(v)]

\* the checksum without the final xor
gen_u32_crc_no_xorout(bytes) == CrcVec[CRC_ONES, bytes]

gen_u32_crc(bytes) == XorU32[CrcVec[CRC_ONES, bytes], CRC_ONES]

(***************************************************************************)
(* Results and errors.                                                     *)
(***************************************************************************)
Ok(v) == [ok |-> TRUE, val |-> v]

Err(e) == [ok |-> FALSE, err |-> e]

\* ChunkTypeDecodeError
InvalidByte(byte) == [kind |-> "InvalidByte", byte |-> byte]

InvalidLen(len) == [kind |-> "InvalidLen", len |-> len]

\* ChunkError
InvalidLengthGT(length) == [kind |-> "InvalidLengthGT", length |-> length]

InvalidLengthCmp(a, b) == [kind |-> "InvalidLengthCmp", first |-> a, second |-> b]

InvalidCrc(a, b) == [kind |-> "InvalidCrc", first |-> a, second |-> b]

\* std::io::Error of read_exact on a source that ends too early
UnexpectedEof == [kind |-> "UnexpectedEof"]

(***************************************************************************)
(* Strings.  A String is the sequence of its characters (Unicode scalar    *)
(* values); its bytes are its UTF-8 encoding, and len() counts bytes.      *)
(***************************************************************************)
encode_utf8(c) ==
    IF c < 128 THEN <<c>>
    ELSE IF c < 2048 THEN <<192 + (c \div 64), 128 + (c % 64)>>
    ELSE IF c < 65536
         THEN <<224 + (c \div 4096), 128 + ((c \div 64) % 64), 128 + (c % 64)>>
         ELSE <<240 + (c \div 262144), 128 + ((c \div 4096) % 64),
                128 + ((c \div 64) % 64), 128 + (c % 64)>>

str_as_bytes[s \in Seq(Nat)] ==
    IF s = <<>> THEN <<>> ELSE encode_utf8(Head(s)) \o str_as_bytes[Tail(s)]

str_len(s) == Len(str_as_bytes[s])

\* char::from(u8): the character U+0000 .. U+00FF with the byte's number
char_from(byte) == byte

(***************************************************************************)
(* ChunkType: [bytes |-> <<b0, b1, b2, b3>>]                               *)
(***************************************************************************)
is_valid_byte(byte) == (65 <= byte /\ byte <= 90) \/ (97 <= byte /\ byte <= 122)

semantic_bit_is_zero(bit) == BitAnd[bit, 2 ^ 5] = 0

\* the first byte of the sequence, left to right, that is no ASCII letter
\* (0: there is none); both constructors scan for it
FirstInvalid(bytes) ==
    LET bad == {i \in 1 .. Len(bytes) : ~is_valid_byte(bytes[i])}
    IN  IF bad = {} THEN 0 ELSE CHOOSE i \in bad : \A j \in bad : i <= j

\* the conversion without the scan for a byte that is no letter
ChunkType_try_from_unchecked(bytes) == Ok([bytes |-> bytes])

\* impl TryFrom<[u8; 4]> for ChunkType
ChunkType_try_from(bytes) ==
    LET i == FirstInvalid(bytes)
    IN  IF i # 0 THEN Err(InvalidByte(bytes[i])) ELSE Ok([bytes |-> bytes])

\* impl FromStr for ChunkType
from_str(s) ==
    IF str_len(s) # 4 THEN Err(InvalidLen(str_len(s)))
    ELSE LET i == FirstInvalid(str_as_bytes[s])
         IN  IF i # 0 THEN Err(InvalidByte(str_as_bytes[s][i]))
             ELSE Ok([bytes |-> str_as_bytes[s]])

\* impl Display for ChunkType
ChunkType_to_string(t) == [i \in 1 .. Len(t.bytes) |-> char_from(t.bytes[i])]

bytes(t) == t.bytes

all_valid_bytes(t) == \A i \in 1 .. Len(t.bytes) : is_valid_byte(t.bytes[i])

is_critical(t) == semantic_bit_is_zero(t.bytes[1])

is_public(t) == semantic_bit_is_zero(t.bytes[2])

is_reserved_bit_valid(t) == semantic_bit_is_zero(t.bytes[3])

\* is_safe_to_copy without its negation
is_safe_to_copy_plain(t) == semantic_bit_is_zero(t.bytes[4])

is_safe_to_copy(t) == ~semantic_bit_is_zero(t.bytes[4])

\* is_valid without the reserved-bit check
is_valid_letters_only(t) == Len(t.bytes) = 4 /\ all_valid_bytes(t)

is_valid(t) == Len(t.bytes) = 4 /\ is_reserved_bit_valid(t) /\ all_valid_bytes(t)

(***************************************************************************)
(* Chunk: [length, chunk_type, chunk_data, crc]                            *)
(***************************************************************************)
MAXIMUM_LENGTH == W(2147483647)

new(chunk_type, chunk_data) ==
    [length |-> as_u32(VLen[chunk_data]),
     chunk_type |-> chunk_type,
     chunk_data |-> chunk_data,
     crc |-> gen_u32_crc(Concat[Vec[bytes(chunk_type)], chunk_data])]

new_with_all_fields(length, chunk_type, chunk_data, crc) ==
    [length |-> length, chunk_type |-> chunk_type, chunk_data |-> chunk_data, crc |-> crc]

\* the serialization with the length field written least significant byte first
as_bytes_length_le(chunk) ==
    LET l == to_be_bytes(chunk.length)
    IN  Concat[Concat[Concat[Vec[<<l[4], l[3], l[2], l[1]>>], Vec[bytes(chunk.chunk_type)]],
                      chunk.chunk_data],
               Vec[to_be_bytes(chunk.crc)]]

as_bytes(chunk) ==
    Concat[Concat[Concat[Vec[to_be_bytes(chunk.length)], Vec[bytes(chunk.chunk_type)]],
                  chunk.chunk_data],
           Vec[to_be_bytes(chunk.crc)]]

\* BufReader::read_exact on a reader holding the bytes `reader`: n bytes and the
\* reader behind them, or the end-of-file error when fewer than n are left
read_exact[reader \in Vector, n \in Wide] ==
    IF WLt[VLen[reader], n] THEN Err(UnexpectedEof)
    ELSE Ok([buffer |-> Take[reader, n], reader |-> Drop[reader, n]])

\* the values of the type Chunk
ChunkValues == [length : Wide, chunk_type : [bytes : Seq(Nat)], chunk_data : Vector, crc : Wide]

\* the conversion with the length compared with the ceiling only after the
\* type is read and validated
Chunk_try_from_ceiling_late(input) ==
    LET r1 == read_exact[input, W(4)] IN
    IF ~r1.ok THEN r1 ELSE
    LET length == from_be_bytes(Bytes[r1.val.buffer]) IN
    LET r2 == read_exact[r1.val.reader, W(4)] IN
    IF ~r2.ok THEN r2 ELSE
    LET chunk_type == ChunkType_try_from(Bytes[r2.val.buffer]) IN
    IF ~chunk_type.ok THEN chunk_type ELSE
    IF WLt[MAXIMUM_LENGTH, length] THEN Err(InvalidLengthGT(length)) ELSE
    LET r3 == read_exact[r2.val.reader, usize_try_from(length)] IN
    IF ~r3.ok THEN r3 ELSE
    LET chunk_data == r3.val.buffer IN
    IF VLen[chunk_data] # usize_try_from(length)
    THEN Err(InvalidLengthCmp(as_u32(VLen[chunk_data]), length)) ELSE
    LET r4 == read_exact[r3.val.reader, W(4)] IN
    IF ~r4.ok THEN r4 ELSE
    LET tried_crc == from_be_bytes(Bytes[r4.val.buffer])
        real_crc == gen_u32_crc(Concat[Vec[bytes(chunk_type.val)], chunk_data])
    IN  IF tried_crc # real_crc THEN Err(InvalidCrc(real_crc, tried_crc))
        ELSE Ok(new_with_all_fields(length, chunk_type.val, chunk_data, real_crc))

\* impl TryFrom<&[u8]> for Chunk
Chunk_try_from(input) ==
    LET r1 == read_exact[input, W(4)] IN
    IF ~r1.ok THEN r1 ELSE
    LET length == from_be_bytes(Bytes[r1.val.buffer]) IN
    IF WLt[MAXIMUM_LENGTH, length] THEN Err(InvalidLengthGT(length)) ELSE
    LET r2 == read_exact[r1.val.reader, W(4)] IN
    IF ~r2.ok THEN r2 ELSE
    LET chunk_type == ChunkType_try_from(Bytes[r2.val.buffer]) IN
    IF ~chunk_type.ok THEN chunk_type ELSE
    LET r3 == read_exact[r2.val.reader, usize_try_from(length)] IN
    IF ~r3.ok THEN r3 ELSE
    LET chunk_data == r3.val.buffer IN
    IF VLen[chunk_data] # usize_try_from(length)
    THEN Err(InvalidLengthCmp(as_u32(VLen[chunk_data]), length)) ELSE
    LET r4 == read_exact[r3.val.reader, W(4)] IN
    IF ~r4.ok THEN r4 ELSE
    LET tried_crc == from_be_bytes(Bytes[r4.val.buffer])
        real_crc == gen_u32_crc(Concat[Vec[bytes(chunk_type.val)], chunk_data])
    IN  IF tried_crc # real_crc THEN Err(InvalidCrc(real_crc, tried_crc))
        ELSE Ok(new_with_all_fields(length, chunk_type.val, chunk_data, real_crc))

(***************************************************************************)
(* State.                                                                  *)
(*   ct_input, ct_result, ct_flags : a ChunkType construction, its result  *)
(*       and what the predicates of the constructed type answer            *)
(*   chunk, made : a Chunk built by a constructor, and by which            *)
(*   buf, src    : the bytes handed to Chunk::try_from, and where they     *)
(*       come from (as_bytes of chunk, the same with one bit flipped, or   *)
(*       an input assembled from its fields)                               *)
(*   parsed      : the result of Chunk::try_from(buf)                      *)
(*   out         : as_bytes of the parsed chunk                            *)
(*   files       : the file system, path -> contents (None: no such file)  *)
(*   last        : the command that ran last, with the bytes it read       *)
(*   status      : what that command returned                              *)
(*   stdout      : the lines it printed                                    *)
(*   written     : the files it wrote, path -> contents                    *)
(*   ncmds       : the number of commands run                              *)
(***************************************************************************)
VARIABLES ct_input, ct_result, ct_flags, chunk, made, buf, src, parsed, out,
          files, last, status, stdout, written, ncmds

type_vars == <<ct_input, ct_result, ct_flags>>

chunk_vars == <<chunk, made, buf, src, parsed, out>>

cmd_vars == <<files, last, status, stdout, written, ncmds>>

vars == <<type_vars, chunk_vars, cmd_vars>>

None == [kind |-> "none"]

Some(v) == [kind |-> "some", val |-> v]

(***************************************************************************)
(* ChunkType: inputs and steps.                                            *)
(***************************************************************************)
MaxText == 5

\* R u S s t 1, e-acute (2 bytes in UTF-8), grinning face (4 bytes)
TextChars == {82, 117, 83, 115, 116, 49, 233, 128512}

Texts == UNION {[1 .. n -> TextChars] : n \in 0 .. MaxText}

\* the letters at the ends of both ranges, their neighbours, R u S s t T 1, 0, 255
RawBytes == {64, 65, 90, 91, 96, 97, 122, 123, 82, 117, 83, 115, 116, 84, 49, 0, 255}

RawTypes == [1 .. 4 -> RawBytes]

TypeIdle ==
    /\ ct_input = None
    /\ ct_result = None
    /\ ct_flags = None

ChunkIdle ==
    /\ chunk = None
    /\ made = "none"
    /\ buf = None
    /\ src = None
    /\ parsed = None
    /\ out = None

\* no command has run; the file system holds nothing
CmdIdle ==
    /\ files = [p \in {"file_path", "output_file"} |-> None]
    /\ last = None
    /\ status = None
    /\ stdout = <<>>
    /\ written = <<>>
    /\ ncmds = 0

TypeInit == TypeIdle /\ ChunkIdle /\ CmdIdle

\* ChunkType::from_str(s)
TypeFromStr ==
    /\ ct_input = None
    /\ \E s \in Texts :
        /\ ct_input' = [kind |-> "from_str", text |-> s]
        /\ ct_result' = from_str(s)
    /\ UNCHANGED <<ct_flags, chunk_vars, cmd_vars>>

\* ChunkType::try_from(bytes)
TypeTryFrom ==
    /\ ct_input = None
    /\ \E b \in RawTypes :
        /\ ct_input' = [kind |-> "try_from", bytes |-> b]
        /\ ct_result' = ChunkType_try_from(b)
    /\ UNCHANGED <<ct_flags, chunk_vars, cmd_vars>>

\* the predicates and the rendering of the constructed type
TypeInspect ==
    /\ ct_result # None
    /\ ct_result.ok
    /\ ct_flags = None
    /\ ct_flags' = [kind |-> "flags",
                    critical |-> is_critical(ct_result.val),
                    public |-> is_public(ct_result.val),
                    reserved_bit_valid |-> is_reserved_bit_valid(ct_result.val),
                    safe_to_copy |-> is_safe_to_copy(ct_result.val),
                    valid |-> is_valid(ct_result.val),
                    text |-> ChunkType_to_string(ct_result.val)]
    /\ UNCHANGED <<ct_input, ct_result, chunk_vars, cmd_vars>>

TypeNext == TypeFromStr \/ TypeTryFrom \/ TypeInspect

SpecType == TypeInit /\ [][TypeNext]_vars

(***************************************************************************)
(* Claims about ChunkType, checked under SpecType.                         *)
(***************************************************************************)
Letters == (65 .. 90) \cup (97 .. 122)

Uppercase == 65 .. 90

Lowercase == 97 .. 122

Bit5IsZero(b) == (b \div 32) % 2 = 0

\* the first character of s, left to right, that is no ASCII letter
FirstOffending(s) ==
    s[CHOOSE i \in 1 .. Len(s) :
        /\ s[i] \notin Letters
        /\ \A j \in 1 .. i - 1 : s[j] \in Letters]

TextRust == <<82, 117, 115, 116>>

TextRuSt == <<82, 117, 83, 116>>

TextRu1t == <<82, 117, 49, 116>>

\* C5 (as claimed): from_str fails with InvalidLen exactly when the text is not
\* 4 characters long; a text of 4 characters succeeds when all are ASCII letters
\* and fails with InvalidByte carrying the first offending character otherwise.
C5_FromStrByCharacters ==
    ct_input.kind = "from_str" =>
        LET s == ct_input.text IN
        /\ (~ct_result.ok /\ ct_result.err.kind = "InvalidLen") <=> Len(s) # 4
        /\ Len(s) = 4 =>
              IF \A i \in 1 .. 4 : s[i] \in Letters
              THEN ct_result = Ok([bytes |-> s])
              ELSE ct_result = Err(InvalidByte(FirstOffending(s)))

\* C9: a constructed type is valid exactly when its 4 bytes are ASCII letters
\* and bit 5 of the byte at index 2 is 0; "Rust" is constructed and not valid,
\* "RuSt" is valid, "Ru1t" is not constructed.
C9_IsValid ==
    /\ ct_flags # None =>
          (ct_flags.valid <=>
              /\ \A i \in 1 .. 4 : ct_result.val.bytes[i] \in Letters
              /\ Bit5IsZero(ct_result.val.bytes[3]))
    /\ (ct_input.kind = "from_str" /\ ct_input.text = TextRust) =>
          ct_result.ok /\ (ct_flags # None => ~ct_flags.valid)
    /\ (ct_input.kind = "from_str" /\ ct_input.text = TextRuSt) =>
          ct_result.ok /\ (ct_flags # None => ct_flags.valid)
    /\ (ct_input.kind = "from_str" /\ ct_input.text = TextRu1t) => ~ct_result.ok
    /\ (ct_input.kind = "try_from" /\ ct_input.bytes = TextRu1t) => ~ct_result.ok

C9_Witness ==
    /\ ct_input.kind = "from_str"
    /\ ct_input.text = TextRust
    /\ ct_flags # None
    /\ ~ct_flags.valid

\* C10: critical, public and reserved-bit-valid hold exactly when bit 5 of
\* byte 0, 1, 2 is 0, that is when that character is uppercase; safe-to-copy
\* holds exactly when bit 5 of byte 3 is 1, that is when it is lowercase.
C10_SemanticBits ==
    ct_flags # None =>
        LET b == ct_result.val.bytes IN
        /\ ct_flags.critical <=> Bit5IsZero(b[1])
        /\ ct_flags.public <=> Bit5IsZero(b[2])
        /\ ct_flags.reserved_bit_valid <=> Bit5IsZero(b[3])
        /\ ct_flags.safe_to_copy <=> ~Bit5IsZero(b[4])
        /\ ct_flags.critical <=> b[1] \in Uppercase
        /\ ct_flags.public <=> b[2] \in Uppercase
        /\ ct_flags.reserved_bit_valid <=> b[3] \in Uppercase
        /\ ct_flags.safe_to_copy <=> b[4] \in Lowercase

\* "RuST" inspected: critical, private, reserved bit valid, unsafe to copy
C10_Witness ==
    /\ ct_flags # None
    /\ ct_result.val.bytes = <<82, 117, 83, 84>>
    /\ ct_flags.critical
    /\ ~ct_flags.public
    /\ ct_flags.reserved_bit_valid
    /\ ~ct_flags.safe_to_copy

(***************************************************************************)
(* Chunk: inputs and steps.                                                *)
(***************************************************************************)
MaxData == 2

DataBytes == {0, 84, 255}

\* the data vectors of at most MaxData bytes
Datas == {Vec[d] : d \in UNION {[1 .. n -> DataBytes] : n \in 0 .. MaxData}}

\* "This is where your secret message will be!", the message of the tests
TestMessage ==
    Vec[<<84, 104, 105, 115, 32, 105, 115, 32, 119, 104, 101, 114, 101, 32,
          121, 111, 117, 114, 32, 115, 101, 99, 114, 101, 116, 32, 109, 101,
          115, 115, 97, 103, 101, 32, 119, 105, 108, 108, 32, 98, 101, 33>>]

\* the crc of the tests, 2882656334 = 0xABD1D84E
TestCrc == [hi |-> 43985, lo |-> 55374]

Two31 == [hi |-> 2 ^ 15, lo |-> 0]

Two32 == [hi |-> 2 ^ 16, lo |-> 0]

\* zero-filled vectors around the sizes where the length field stops holding
\* the byte count: 2^31 - 1, 2^31, 2^32 and 2^32 + 1 bytes
BigDatas ==
    {Fill(0, WSub[Two31, W(1)]), Fill(0, Two31), Fill(0, Two32), Fill(0, WAdd[Two32, W(1)])}

\* "RuSt", "AZaz", "tEXt"
TypeNames == {<<82, 117, 83, 116>>, <<65, 90, 97, 122>>, <<116, 69, 88, 116>>}

ChunkTypes == {ChunkType_try_from(b).val : b \in TypeNames}

\* the type field of an input: a letter tag, and "Ru1t"
InputTypes == {<<82, 117, 83, 116>>, <<65, 90, 97, 122>>, <<82, 117, 49, 116>>}

U32Inc(x) == as_u32(WAdd[x, W(1)])

U32Dec(x) == IF x = W(0) THEN CRC_ONES ELSE WSub[x, W(1)]

\* the bytes of an input: the fields in wire order, cut to f.keep bytes when
\* f.cut says so
Assemble(f) ==
    LET all == Concat[Concat[Concat[Concat[Vec[to_be_bytes(f.length)], Vec[f.type]],
                                    f.data],
                             Vec[to_be_bytes(f.crc)]],
                      f.trailing]
    IN  IF f.cut THEN Take[all, W(f.keep)] ELSE all

Inputs ==
    {[kind |-> "input", length |-> l, type |-> t, data |-> d, crc |-> c,
      trailing |-> tr, cut |-> k.cut, keep |-> k.keep] :
        l \in {W(0), W(1), W(2), Two31, CRC_ONES},
        t \in InputTypes,
        d \in Datas,
        c \in {W(0)},
        tr \in {<<>>, Vec[<<0>>], Vec[<<0, 0, 0, 0, 73>>]},
        k \in {[cut |-> FALSE, keep |-> 0], [cut |-> TRUE, keep |-> 0],
                [cut |-> TRUE, keep |-> 4], [cut |-> TRUE, keep |-> 6]}}

\* the crc field of an input: the right one, the right one plus and minus 1, 0
CrcChoices(t, d) ==
    LET real == gen_u32_crc(Concat[Vec[t], d])
    IN  {real, U32Inc(real), U32Dec(real), W(0)}

\* the chunk of the tests, with the right crc and with the crc less 1
TestInputs ==
    {[kind |-> "input", length |-> W(42), type |-> <<82, 117, 83, 116>>,
      data |-> TestMessage, crc |-> c, trailing |-> <<>>, cut |-> FALSE, keep |-> 0] :
        c \in {TestCrc, U32Dec(TestCrc)}}

ChunkInit == TypeIdle /\ ChunkIdle /\ CmdIdle

\* Chunk::new(chunk_type, chunk_data)
Construct ==
    /\ chunk = None /\ buf = None
    /\ \E t \in ChunkTypes, d \in Datas \cup BigDatas \cup {TestMessage} :
        chunk' = new(t, d)
    /\ made' = "new"
    /\ UNCHANGED <<type_vars, buf, src, parsed, out, cmd_vars>>

\* Chunk::new_with_all_fields(length, chunk_type, chunk_data, crc)
ConstructAllFields ==
    /\ chunk = None /\ buf = None
    /\ \E t \in ChunkTypes, d \in Datas :
       \E l \in {as_u32(VLen[d]), U32Inc(as_u32(VLen[d])), Two31},
          c \in {gen_u32_crc(Concat[Vec[bytes(t)], d]), W(0)} :
        chunk' = new_with_all_fields(l, t, d, c)
    /\ made' = "new_with_all_fields"
    /\ UNCHANGED <<type_vars, buf, src, parsed, out, cmd_vars>>

\* chunk.as_bytes()
Serialize ==
    /\ chunk # None /\ buf = None
    /\ buf' = Some(as_bytes(chunk))
    /\ src' = [kind |-> "as_bytes"]
    /\ UNCHANGED <<type_vars, chunk, made, parsed, out, cmd_vars>>

\* One bit of the type or of the data of a serialized chunk is flipped on the
\* way to the parser: bit k of the byte at offset 4 + i (type) or 8 + i (data).
ByteAt(v, pos) == Drop[v, W(pos)][1].b

SetByte(v, pos, b) == Concat[Concat[Take[v, W(pos)], Vec[<<b>>]], Drop[v, W(pos + 1)]]

FlipBit ==
    /\ buf # None /\ src.kind = "as_bytes" /\ parsed = None
    /\ made = "new"
    /\ WLe[VLen[chunk.chunk_data], W(MaxData)]
    /\ \E pos \in 4 .. 7 + chunk.length.lo, k \in 0 .. 7 :
        /\ buf' = Some(SetByte(buf.val, pos, Xor[ByteAt(buf.val, pos), 2 ^ k]))
        /\ src' = [kind |-> "flipped", pos |-> pos, bit |-> k]
    /\ UNCHANGED <<type_vars, chunk, made, parsed, out, cmd_vars>>

\* bytes from outside: a length field, a type field, data, a crc field and
\* what follows, possibly cut short
Receive ==
    /\ chunk = None /\ buf = None
    /\ \E f \in Inputs \cup TestInputs :
       \E c \in IF f \in TestInputs THEN {f.crc} ELSE CrcChoices(f.type, f.data) :
        /\ src' = [f EXCEPT !.crc = c]
        /\ buf' = Some(Assemble([f EXCEPT !.crc = c]))
    /\ UNCHANGED <<type_vars, chunk, made, parsed, out, cmd_vars>>

\* Chunk::try_from(buf)
Parse ==
    /\ buf # None /\ parsed = None
    /\ parsed' = Chunk_try_from(buf.val)
    /\ UNCHANGED <<type_vars, chunk, made, buf, src, out, cmd_vars>>

\* as_bytes() of the parsed chunk
Reserialize ==
    /\ parsed # None /\ out = None
    /\ parsed.ok
    /\ out' = Some(as_bytes(parsed.val))
    /\ UNCHANGED <<type_vars, chunk, made, buf, src, parsed, cmd_vars>>

ChunkNext ==
    \/ Construct
    \/ ConstructAllFields
    \/ Serialize
    \/ FlipBit
    \/ Receive
    \/ Parse
    \/ Reserialize

Spec == ChunkInit /\ [][ChunkNext]_vars

(***************************************************************************)
(* Claims about Chunk, checked under Spec.                                 *)
(***************************************************************************)
\* the chunks the state holds: the constructed one and the parsed one
HeldChunks ==
    (IF chunk # None THEN {chunk} ELSE {})
        \cup (IF parsed # None /\ parsed.ok THEN {parsed.val} ELSE {})

\* C1 (as claimed): parsing the bytes as_bytes() gives for a chunk built by
\* Chunk::new succeeds and yields a chunk with the same type, data, length
\* and crc, whatever the length of the data.
C1_NewRoundTrip ==
    (made = "new" /\ src.kind = "as_bytes" /\ parsed # None) =>
        /\ parsed.ok
        /\ parsed.val.chunk_type = chunk.chunk_type
        /\ parsed.val.chunk_data = chunk.chunk_data
        /\ parsed.val.length = chunk.length
        /\ parsed.val.crc = chunk.crc

\* C2 (as claimed): as_bytes() of the chunk parsed from a buffer is
\* byte-identical to the buffer, bytes after the crc field included.
C2_ByteIdentical == out # None => out.val = buf.val

\* C2 (amended): as_bytes() of the chunk parsed from a buffer is the buffer's
\* first 12 + length bytes, length being the buffer's big-endian length field;
\* what follows the crc field is not given back.
C2_ConsumedPrefix ==
    out # None =>
        LET n == WAdd[W(12), from_be_bytes(Bytes[Take[buf.val, W(4)]])]
        IN  /\ WLe[n, VLen[buf.val]]
            /\ out.val = Take[buf.val, n]
            /\ VLen[out.val] = n

\* an accepted input with bytes after its crc field, parsed and serialized again
C2_Witness ==
    /\ out # None
    /\ src.kind = "input"
    /\ src.trailing # <<>>
    /\ WLt[VLen[out.val], VLen[buf.val]]

\* C3 (as claimed): every chunk from Chunk::new, Chunk::new_with_all_fields or
\* Chunk::try_from has length = the number of bytes of its data and
\* crc = CRC-32/ISO-HDLC of its type bytes followed by its data.
C3_LengthAndCrc ==
    \A c \in HeldChunks :
        /\ c.length = VLen[c.chunk_data]
        /\ c.crc = gen_u32_crc(Concat[Vec[c.chunk_type.bytes], c.chunk_data])

\* C4 (as claimed): no chunk from Chunk::new or from Chunk::try_from has a
\* length field above 2^31 - 1.
C4_LengthCeiling ==
    \A c \in HeldChunks :
        (made = "new" \/ c # chunk) => WLe[c.length, W(2147483647)]

\* the type field of the buffer
TypeField == Bytes[Take[Drop[buf.val, W(4)], W(4)]]

\* C6 (as claimed): a serialized chunk with one bit of its type or data
\* flipped is rejected with InvalidCrc.
C6_FlipGivesInvalidCrc ==
    (src.kind = "flipped" /\ parsed # None) =>
        ~parsed.ok /\ parsed.err.kind = "InvalidCrc"

\* C6 (amended): a serialized chunk with one bit of its type or data flipped
\* is rejected: with InvalidByte carrying the changed byte when the flip makes
\* a type byte a non-letter, with InvalidCrc (recomputed crc, crc field)
\* otherwise.
C6_FlipIsRejected ==
    (src.kind = "flipped" /\ parsed # None) =>
        /\ ~parsed.ok
        /\ IF \E i \in 1 .. 4 : TypeField[i] \notin Letters
           THEN parsed.err = [kind |-> "InvalidByte", byte |-> ByteAt(buf.val, src.pos)]
           ELSE /\ parsed.err.kind = "InvalidCrc"
                /\ parsed.err.second = chunk.crc
                /\ parsed.err.first # chunk.crc

\* a flipped type bit that leaves the byte a letter: rejected by the crc
C6_Witness ==
    /\ src.kind = "flipped"
    /\ src.pos < 8
    /\ parsed # None
    /\ ~parsed.ok
    /\ parsed.err.kind = "InvalidCrc"

\* an input of a length field, 4 letters, exactly that many data bytes and a
\* crc field, nothing cut and nothing following
WellFramed ==
    /\ src.kind = "input"
    /\ ~src.cut
    /\ src.trailing = <<>>
    /\ src.length = VLen[src.data]
    /\ WLe[src.length, W(2147483647)]
    /\ \A i \in 1 .. 4 : src.type[i] \in Letters

\* C8: a well-framed buffer is rejected exactly when its crc field differs
\* from the CRC-32/ISO-HDLC of type and data, then with InvalidCrc(recomputed,
\* crc field); an accepted one yields the declared length, type, data, crc.
\* The crc of "RuSt" and the message of the tests is 2882656334.
C8_CrcVerification ==
    (WellFramed /\ parsed # None) =>
        LET real == gen_u32_crc(Concat[Vec[src.type], src.data]) IN
        /\ ~parsed.ok <=> src.crc # real
        /\ ~parsed.ok =>
              parsed.err = [kind |-> "InvalidCrc", first |-> real, second |-> src.crc]
        /\ parsed.ok =>
              parsed.val = [length |-> src.length, chunk_type |-> [bytes |-> src.type],
                            chunk_data |-> src.data, crc |-> src.crc]
        /\ (src.type = TextRuSt /\ src.data = TestMessage) => real = TestCrc

\* the chunk of the tests with its crc field less 1: rejected
C8_Witness ==
    /\ WellFramed
    /\ src.data = TestMessage
    /\ src.crc = U32Dec(TestCrc)
    /\ parsed # None
    /\ ~parsed.ok
    /\ parsed.err.kind = "InvalidCrc"

\* the length field of the buffer: its first 4 bytes, big-endian
LengthField == from_be_bytes(Bytes[Take[buf.val, W(4)]])

\* C11: a buffer of at least 4 bytes whose length field exceeds 2^31 - 1 is
\* rejected with InvalidLengthGT carrying that length field, whatever follows
\* the field (a type that is no letter tag, too little data, nothing at all).
C11_OversizedLengthFirst ==
    (parsed # None /\ WLe[W(4), VLen[buf.val]] /\ WLt[W(2147483647), LengthField]) =>
        parsed = [ok |-> FALSE, err |-> [kind |-> "InvalidLengthGT", length |-> LengthField]]

\* a length field of 2^31, the type "Ru1t", and the buffer cut in the type field
C11_Witness ==
    /\ parsed # None
    /\ src.kind = "input"
    /\ src.length = Two31
    /\ src.type = TextRu1t
    /\ src.cut /\ src.keep = 6
    /\ ~parsed.ok
    /\ parsed.err.kind = "InvalidLengthGT"

(***************************************************************************)
(* Chunk as text: data_as_string and impl Display for Chunk.               *)
(***************************************************************************)
FromUtf8Error == [kind |-> "FromUtf8Error"]

\* the number of bytes the UTF-8 sequence led by b0 has (0: b0 leads none)
Utf8Width(b0) ==
    IF b0 < 128 THEN 1
    ELSE IF 194 <= b0 /\ b0 <= 223 THEN 2
    ELSE IF 224 <= b0 /\ b0 <= 239 THEN 3
    ELSE IF 240 <= b0 /\ b0 <= 244 THEN 4
    ELSE 0

\* String::from_utf8: the characters the bytes encode, or an error when the
\* bytes are no UTF-8 (stray or missing continuation bytes, overlong forms,
\* surrogates, values above U+10FFFF)
from_utf8[s \in Seq(Nat)] ==
    IF s = <<>> THEN Ok(<<>>)
    ELSE LET n == Utf8Width(s[1]) IN
         IF n = 0 \/ Len(s) < n \/ \E i \in 2 .. n : s[i] < 128 \/ s[i] > 191
         THEN Err(FromUtf8Error)
         ELSE LET c == IF n = 1 THEN s[1]
                       ELSE IF n = 2 THEN (s[1] - 192) * 64 + (s[2] - 128)
                       ELSE IF n = 3
                            THEN (s[1] - 224) * 4096 + (s[2] - 128) * 64 + (s[3] - 128)
                            ELSE (s[1] - 240) * 262144 + (s[2] - 128) * 4096
                                 + (s[3] - 128) * 64 + (s[4] - 128)
                  good == \/ n <= 2
                          \/ n = 3 /\ c >= 2048 /\ ~(55296 <= c /\ c <= 57343)
                          \/ n = 4 /\ c >= 65536 /\ c <= 1114111
              IN  IF ~good THEN Err(FromUtf8Error)
                  ELSE WithValue(from_utf8[SubSeq(s, n + 1, Len(s))], LAMBDA rest :
                       IF ~rest.ok THEN rest ELSE Ok(<<c>> \o rest.val))

data_as_string(c) == from_utf8[Bytes[c.chunk_data]]

\* "{}\t{}": the type, a tab, the data as text or "[data]"
Chunk_to_string(c) ==
    LET text == data_as_string(c)
    IN  ChunkType_to_string(c.chunk_type) \o <<9>>
            \o (IF text.ok THEN text.val ELSE <<91, 100, 97, 116, 97, 93>>)

(***************************************************************************)
(* Png: [chunks |-> sequence of chunks].  The container's code is not in   *)
(* src/; these operators follow its description, section 4.3.              *)
(***************************************************************************)
STANDARD_HEADER == <<137, 80, 78, 71, 13, 10, 26, 10>>

InvalidSignature == [kind |-> "InvalidSignature"]

ChunkNotFound(type_text) == [kind |-> "ChunkNotFound", chunk_type |-> type_text]

\* Chunk::try_from on what remains, until nothing remains; the first failure
\* is the result
ParseChunks[rest \in Vector] ==
    IF rest = <<>> THEN Ok(<<>>)
    ELSE WithValue(Chunk_try_from(rest), LAMBDA c :
         IF ~c.ok THEN c
         ELSE WithValue(ParseChunks[Drop[rest, WAdd[W(12), c.val.length]]], LAMBDA more :
              IF ~more.ok THEN more ELSE Ok(<<c.val>> \o more.val)))

Png_try_from(input) ==
    IF Bytes[Take[input, W(8)]] # STANDARD_HEADER THEN Err(InvalidSignature)
    ELSE WithValue(ParseChunks[Drop[input, W(8)]], LAMBDA cs :
         IF cs.ok THEN Ok([chunks |-> cs.val]) ELSE cs)

append_chunk(png, c) == [chunks |-> Append(png.chunks, c)]

\* the positions of the chunks whose type renders to type_text
Matching(png, type_text) ==
    {i \in 1 .. Len(png.chunks) :
        ChunkType_to_string(png.chunks[i].chunk_type) = type_text}

FirstMatching(png, type_text) ==
    CHOOSE i \in Matching(png, type_text) : \A j \in Matching(png, type_text) : i <= j

chunk_by_type(png, type_text) ==
    IF Matching(png, type_text) = {} THEN None
    ELSE Some(png.chunks[FirstMatching(png, type_text)])

\* Ok: the chunk removed and the container without it
remove_chunk(png, type_text) ==
    IF Matching(png, type_text) = {} THEN Err(ChunkNotFound(type_text))
    ELSE LET i == FirstMatching(png, type_text)
         IN  Ok([chunk |-> png.chunks[i],
                 png |-> [chunks |-> SubSeq(png.chunks, 1, i - 1)
                                       \o SubSeq(png.chunks, i + 1, Len(png.chunks))]])

chunks(png) == png.chunks

\* the chunks' bytes from the chunk at position i on
ChunksAsBytes[cs \in Seq(ChunkValues), i \in Nat] ==
    IF i > Len(cs) THEN <<>> ELSE Concat[as_bytes(cs[i]), ChunksAsBytes[cs, i + 1]]

Png_as_bytes(png) == Concat[Vec[STANDARD_HEADER], ChunksAsBytes[png.chunks, 1]]

(***************************************************************************)
(* The commands (commands.rs).  A command gives an outcome: what it        *)
(* returns, the lines it prints and the files it writes.                   *)
(***************************************************************************)
Unit == <<>>

NotFound == [kind |-> "NotFound"]

\* fs::read
fs_read(fs, path) == IF fs[path] = None THEN Err(NotFound) ELSE Ok(fs[path].val)

\* println!(fmt, arg)
Line(fmt, arg) == [fmt |-> fmt, arg |-> arg]

\* the outcome of the ? operator on an error
Failed(e) == [status |-> Err(e), stdout |-> <<>>, written |-> <<>>]

\* encode that writes the container back without the new chunk
encode_without_append(fs, args) ==
    LET input == fs_read(fs, args.file_path) IN
    IF ~input.ok THEN Failed(input.err) ELSE
    LET output == IF args.output_file # None THEN args.output_file.val ELSE args.file_path
        chunk_type == from_str(args.chunk_type)
    IN
    IF ~chunk_type.ok THEN Failed(chunk_type.err) ELSE
    LET c == new(chunk_type.val, Vec[str_as_bytes[args.message]]) IN
    WithValue(Png_try_from(input.val), LAMBDA png :
    IF ~png.ok THEN Failed(png.err) ELSE
    [status |-> Ok(Unit),
     stdout |-> <<Line("Secret successfully encoded!", <<>>)>>,
     written |-> <<[path |-> output,
                    contents |-> Png_as_bytes(png.val)]>>])

encode(fs, args) ==
    LET input == fs_read(fs, args.file_path) IN
    IF ~input.ok THEN Failed(input.err) ELSE
    LET output == IF args.output_file # None THEN args.output_file.val ELSE args.file_path
        chunk_type == from_str(args.chunk_type)
    IN
    IF ~chunk_type.ok THEN Failed(chunk_type.err) ELSE
    LET c == new(chunk_type.val, Vec[str_as_bytes[args.message]]) IN
    WithValue(Png_try_from(input.val), LAMBDA png :
    IF ~png.ok THEN Failed(png.err) ELSE
    [status |-> Ok(Unit),
     stdout |-> <<Line("Secret successfully encoded!", <<>>)>>,
     written |-> <<[path |-> output,
                    contents |-> Png_as_bytes(append_chunk(png.val, c))]>>])

decode(fs, args) ==
    LET input == fs_read(fs, args.file_path) IN
    IF ~input.ok THEN Failed(input.err) ELSE
    WithValue(Png_try_from(input.val), LAMBDA png :
    IF ~png.ok THEN Failed(png.err) ELSE
    LET c == chunk_by_type(png.val, args.chunk_type) IN
    [status |-> Ok(Unit),
     stdout |-> IF c # None THEN <<Line("{}", Chunk_to_string(c.val))>> ELSE <<>>,
     written |-> <<>>])

remove(fs, args) ==
    LET input == fs_read(fs, args.file_path) IN
    IF ~input.ok THEN Failed(input.err) ELSE
    WithValue(Png_try_from(input.val), LAMBDA png :
    IF ~png.ok THEN Failed(png.err) ELSE
    LET removed == remove_chunk(png.val, args.chunk_type) IN
    IF removed.ok
    THEN [status |-> Ok(Unit),
          stdout |-> <<Line("Removed chunk: {}", Chunk_to_string(removed.val.chunk))>>,
          written |-> <<[path |-> args.file_path,
                         contents |-> Png_as_bytes(removed.val.png)]>>]
    ELSE [status |-> Ok(Unit),
          stdout |-> <<Line("Error: {}", removed.err)>>,
          written |-> <<>>])

print(fs, args) ==
    LET input == fs_read(fs, args.file_path) IN
    IF ~input.ok THEN Failed(input.err) ELSE
    WithValue(Png_try_from(input.val), LAMBDA png :
    IF ~png.ok THEN Failed(png.err) ELSE
    [status |-> Ok(Unit),
     stdout |-> [i \in 1 .. Len(chunks(png.val)) |->
                    Line("{}", Chunk_to_string(chunks(png.val)[i]))],
     written |-> <<>>])

run(fs, command) ==
    CASE command.op = "encode" -> encode(fs, command.args)
      [] command.op = "decode" -> decode(fs, command.args)
      [] command.op = "remove" -> remove(fs, command.args)
      [] command.op = "print" -> print(fs, command.args)

(***************************************************************************)
(* The specification of the commands: up to MaxCmds commands run, one      *)
(* after the other, on a file system that starts with one input file.      *)
(***************************************************************************)
MaxCmds == 2

TexttEXt == <<116, 69, 88, 116>>

\* the chunks of the files the runs start from; the second has data that is
\* no UTF-8
FileChunks ==
    <<new([bytes |-> TextRuSt], Vec[<<104, 105>>]),
      new([bytes |-> TexttEXt], Vec[<<255>>]),
      new([bytes |-> TextRuSt], Vec[<<111, 107>>])>>

\* the input file at the start: missing, empty, containers of 0 .. 3 chunks,
\* a wrong signature, a container cut short
InitialFiles ==
    {None, Some(<<>>)}
        \cup {Some(Png_as_bytes([chunks |-> SubSeq(FileChunks, 1, k)])) : k \in 0 .. 3}
        \cup {Some(Png_as_bytes([chunks |-> <<FileChunks[2]>>])),
              Some(Concat[Vec[<<137, 80, 78, 71, 13, 10, 26, 11>>], as_bytes(FileChunks[1])]),
              Some(Take[Png_as_bytes([chunks |-> <<FileChunks[1]>>]), W(21)])}

\* the tags of the command lines: two of the files' chunks, a well-formed
\* tag of no chunk, a tag with a digit
TagArgs == {TextRuSt, TexttEXt, <<73, 69, 78, 68>>, TextRu1t}

MessageArgs == {<<104, 105>>, <<233>>}

CmdInit ==
    /\ TypeIdle
    /\ ChunkIdle
    /\ files \in {[p \in {"file_path", "output_file"} |->
                     IF p = "file_path" THEN f ELSE None] : f \in InitialFiles}
    /\ last = None
    /\ status = None
    /\ stdout = <<>>
    /\ written = <<>>
    /\ ncmds = 0

\* the file system after the writes of an outcome
AfterWrites(fs, w) ==
    [p \in DOMAIN fs |->
        IF \E i \in 1 .. Len(w) : w[i].path = p
        THEN Some(w[CHOOSE i \in 1 .. Len(w) : w[i].path = p].contents)
        ELSE fs[p]]

\* pub fn run(command): the command runs to its end
Run(command) ==
    /\ ncmds < MaxCmds
    /\ \E o \in {run(files, command)} :
        /\ files' = AfterWrites(files, o.written)
        /\ status' = o.status
        /\ stdout' = o.stdout
        /\ written' = o.written
    /\ last' = [command |-> command, input |-> files[command.args.file_path]]
    /\ ncmds' = ncmds + 1
    /\ UNCHANGED <<type_vars, chunk_vars>>

Encode ==
    \E t \in TagArgs, m \in MessageArgs, o \in {None, Some("output_file")} :
        Run([op |-> "encode",
             args |-> [file_path |-> "file_path", chunk_type |-> t,
                       message |-> m, output_file |-> o]])

Decode ==
    \E t \in TagArgs :
        Run([op |-> "decode", args |-> [file_path |-> "file_path", chunk_type |-> t]])

Remove ==
    \E t \in TagArgs :
        Run([op |-> "remove", args |-> [file_path |-> "file_path", chunk_type |-> t]])

PrintChunks == Run([op |-> "print", args |-> [file_path |-> "file_path"]])

CmdNext == Encode \/ Decode \/ Remove \/ PrintChunks

SpecCmd == CmdInit /\ [][CmdNext]_vars

(***************************************************************************)
(* Claims about the commands, checked under SpecCmd.                       *)
(***************************************************************************)
\* C7 (as claimed): remove on an input that parses as a container and a tag
\* that matches none of its chunks returns an error and writes nothing.
C7_RemoveAbsentIsError ==
    (/\ last # None
     /\ last.command.op = "remove"
     /\ last.input # None
     /\ \E png \in {Png_try_from(last.input.val)} :
            png.ok /\ chunk_by_type(png.val, last.command.args.chunk_type) = None)
        => (~status.ok /\ written = <<>>)

\* the command that ran last is an encode that succeeded
EncodeDone == last # None /\ last.command.op = "encode" /\ status.ok

\* the step is a decode, with the tag of the encode that ran before it, of the
\* file that encode wrote
DecodeOfEncoded ==
    /\ EncodeDone
    /\ last'.command.op = "decode"
    /\ last'.command.args.chunk_type = last.command.args.chunk_type
    /\ last'.command.args.file_path = written[1].path

\* C12: the file encode(t, m) writes holds the chunks of its input followed by
\* the new chunk (t, m); decode of the tag t on that file prints the new chunk,
\* "t<tab>m", when the input held no chunk of type t, and prints the first
\* chunk of type t of the input, not the new one, when it held one.
C12_EncodeThenDecode ==
    [][DecodeOfEncoded =>
        \E before \in {Png_try_from(last.input.val)}, after \in {Png_try_from(last'.input.val)} :
            LET t == last.command.args.chunk_type
                m == last.command.args.message
            IN  /\ before.ok /\ after.ok
                /\ Len(after.val.chunks) = Len(before.val.chunks) + 1
                /\ SubSeq(after.val.chunks, 1, Len(before.val.chunks)) = before.val.chunks
                /\ after.val.chunks[Len(after.val.chunks)].chunk_type = [bytes |-> t]
                /\ after.val.chunks[Len(after.val.chunks)].chunk_data = Vec[str_as_bytes[m]]
                /\ status'.ok
                /\ IF \A i \in 1 .. Len(before.val.chunks) :
                          before.val.chunks[i].chunk_type.bytes # t
                   THEN stdout' = <<[fmt |-> "{}", arg |-> t \o <<9>> \o m]>>
                   ELSE LET first == CHOOSE i \in 1 .. Len(before.val.chunks) :
                                        /\ before.val.chunks[i].chunk_type.bytes = t
                                        /\ \A j \in 1 .. i - 1 :
                                              before.val.chunks[j].chunk_type.bytes # t
                        IN  stdout' = <<[fmt |-> "{}",
                                         arg |-> Chunk_to_string(before.val.chunks[first])]>>
    ]_vars

\* decode of "IEND" prints "IEND<tab>hi": no file holds such a chunk at the
\* start, so an encode of ("IEND", "hi") ran before
C12_Witness ==
    /\ last # None
    /\ last.command.op = "decode"
    /\ last.command.args.chunk_type = <<73, 69, 78, 68>>
    /\ status.ok
    /\ stdout = <<[fmt |-> "{}", arg |-> <<73, 69, 78, 68, 9, 104, 105>>]>>

====
